---- MODULE Spec2Model ----
(***************************************************************************)
(* A model of zepben/load-synthesiser: the zigzag/varint codec, the        *)
(* readings, statistic, boolean and date-range serialisers, and the        *)
(* SQLite writers that store their output.                                 *)
(*                                                                         *)
(* Python integers are unbounded; the model computes with them exactly     *)
(* and keeps every value it draws inside the model checker's integers.     *)
(* A byte is an integer in 0..255 and a byte string a sequence of them.    *)
(* A float sample is a rational x / (MILLI * SubSteps) kW, held as the     *)
(* integer x.                                                              *)
(***************************************************************************)
EXTENDS Integers, Sequences, FiniteSets, TLC

VARIABLES
    kind,        \* the class of the database object: "readings" or "index"
    db,          \* the committed contents of the database file, per table
    unclosed,    \* a connection the code never closed is still alive
    write_lock,  \* ... and it holds the write lock of its open transaction
    last,        \* the last operation called on the database and its outcome
    true_pos,    \* cacheable_serialiser.true_value.bytepos
    false_pos,   \* cacheable_serialiser.false_value.bytepos
    calls,       \* the calls made to cacheable_serialiser.sx, with results
    lists,       \* the Python lists that hold samples, by identity
    profiles,    \* the EnergyProfile objects constructed so far
    input,       \* the argument of the function under study
    output,      \* its result
    pc           \* "call" before the function has run, "done" after

vars == <<kind, db, unclosed, write_lock, last, true_pos, false_pos, calls,
          lists, profiles, input, output, pc>>

epvars == <<lists, profiles>>

sxvars == <<true_pos, false_pos, calls>>

dbvars == <<kind, db, unclosed, write_lock, last>>

fnvars == <<input, output, pc>>

----------------------------------------------------------------------------
(* Bounds of the model.                                                    *)

\* integers are drawn from -MaxVal .. MaxVal
MaxVal == 70

\* a sample is a multiple of 1 / (MILLI * SubSteps) kW
SubSteps == 4

\* Readings are drawn with 1 .. MaxChannels channels (and with MAX_CHANNELS)
MaxChannels == 2

\* ... of 0 .. MaxSamples samples each
MaxSamples == 2

\* cacheable_serialiser.sx is called at most MaxCalls times
MaxCalls == 6

\* write_entity_ids and write_readings are given at most MaxBatch items
MaxBatch == 2

\* finalise is called at most MaxFinalise times on one file
MaxFinalise == 2

\* at most MaxProfiles EnergyProfile objects are constructed
MaxProfiles == 2

----------------------------------------------------------------------------
(* Constants of the program.                                               *)

\* round(channel[i] * 1000)
MILLI == 1000

\* if readings.num_channels() > 127
MAX_CHANNELS == 127

----------------------------------------------------------------------------
(* Python's integer operators, on unbounded two's complement integers.     *)

RECURSIVE Shr(_, _)
\* a >> n: arithmetic shift, rounding towards minus infinity
Shr(a, n) == IF n = 0 \/ a = 0 \/ a = -1 THEN a ELSE Shr(a \div 2, n - 1)

\* a << n
Shl(a, n) == a * (2 ^ n)

RECURSIVE BitXor(_, _)
\* a ^ b
BitXor(a, b) ==
    IF a \in {0, -1} /\ b \in {0, -1}
    THEN (IF a = b THEN 0 ELSE -1)
    ELSE 2 * BitXor(a \div 2, b \div 2) + (IF a % 2 = b % 2 THEN 0 ELSE 1)

RECURSIVE BitAnd(_, _)
\* a & b
BitAnd(a, b) ==
    IF a = 0 \/ b = 0 THEN 0
    ELSE IF a = -1 THEN b
    ELSE IF b = -1 THEN a
    ELSE 2 * BitAnd(a \div 2, b \div 2) + (IF a % 2 = 1 /\ b % 2 = 1 THEN 1 ELSE 0)

RECURSIVE BitOr(_, _)
\* a | b
BitOr(a, b) ==
    IF a = -1 \/ b = -1 THEN -1
    ELSE IF a = 0 THEN b
    ELSE IF b = 0 THEN a
    ELSE 2 * BitOr(a \div 2, b \div 2) + (IF a % 2 = 1 \/ b % 2 = 1 THEN 1 ELSE 0)

----------------------------------------------------------------------------
(* readings.py: the zigzag / varint codec.                                 *)

encode_zigzag_no_sign(val) == Shl(val, 1)

encode_zigzag(val) == BitXor(Shl(val, 1), Shr(val, 63))

RECURSIVE encode_7bit_loop_shift8(_)
encode_7bit_loop_shift8(val) ==
    LET rest == Shr(val, 8)
        lower_7_bits == IF rest # 0 THEN BitOr(BitAnd(val, 127), 128)
                        ELSE BitAnd(val, 127)
    IN  IF rest <= 0 THEN <<lower_7_bits>>
        ELSE <<lower_7_bits>> \o encode_7bit_loop_shift8(rest)

RECURSIVE encode_7bit_loop(_)
\* the while loop of encode_7bit_long, from the value val holds on entry
encode_7bit_loop(val) ==
    LET rest == Shr(val, 7)
        lower_7_bits == IF rest # 0 THEN BitOr(BitAnd(val, 127), 128)
                        ELSE BitAnd(val, 127)
    IN  IF rest <= 0 THEN <<lower_7_bits>>
        ELSE <<lower_7_bits>> \o encode_7bit_loop(rest)

encode_7bit_long(val) == encode_7bit_loop(encode_zigzag(val))

----------------------------------------------------------------------------
(* bitstring: the tokens the serialisers append to a BitStream.            *)

\* 'uint:8=v'
uint8(v) == <<v>>

\* 'int:8=v', two's complement
int8(v) == <<v % 256>>

\* 'uint:32=v', most significant byte first
uint32(v) ==
    <<(v \div 16777216) % 256, (v \div 65536) % 256, (v \div 256) % 256, v % 256>>

----------------------------------------------------------------------------
(* readings.py: Readings and its serialiser.  A Readings is the sequence   *)
(* of its channels, each a sequence of samples of one common length.       *)

num_channels(readings) == Len(readings)

channel(readings, i) == readings[i]

\* Readings.__len__: OneChannelReadings len(_channel), MultiChannelReadings
\* len(_channels[0])
readings_len(readings) == Len(readings[1])

\* Python's round() of the rational num / den, den > 0: to the nearest
\* integer, a tie to the even one
round_half_even(num, den) ==
    LET q == num \div den
        r == num % den
    IN  IF 2 * r < den THEN q
        ELSE IF 2 * r > den THEN q + 1
        ELSE IF q % 2 = 0 THEN q ELSE q + 1

\* int(x * 1000): towards zero
trunc_milli(x) ==
    IF x >= 0 THEN (x * MILLI) \div (MILLI * SubSteps)
    ELSE -(((-x) * MILLI) \div (MILLI * SubSteps))

\* round(x * 1000) of the sample x / (MILLI * SubSteps)
round_milli(x) == round_half_even(x * MILLI, MILLI * SubSteps)

RECURSIVE ConcatRange(_, _, _)
\* ss[lo] \o ... \o ss[hi]
ConcatRange(ss, lo, hi) ==
    IF lo > hi THEN <<>>
    ELSE IF lo = hi THEN ss[lo]
    ELSE LET mid == (lo + hi) \div 2
         IN  ConcatRange(ss, lo, mid) \o ConcatRange(ss, mid + 1, hi)

\* the concatenation of a sequence of byte strings, in order
Concat(ss) == ConcatRange(ss, 1, Len(ss))

channel_block_unsigned_marker(chan, channel_num) ==
    LET val == [i \in 1 .. Len(chan) |-> round_milli(chan[i])]
        to_add == uint8(channel_num)
                  \o Concat([i \in 1 .. Len(chan) |-> encode_7bit_long(val[i])])
        all_zero == \A i \in 1 .. Len(chan) : val[i] = 0
    IN  IF all_zero THEN uint8(channel_num) ELSE to_add

\* one pass of the loop over channel_num in sx: what it appends to buffer
channel_block(chan, channel_num) ==
    LET val == [i \in 1 .. Len(chan) |-> round_milli(chan[i])]
        to_add == uint8(channel_num)
                  \o Concat([i \in 1 .. Len(chan) |-> encode_7bit_long(val[i])])
        all_zero == \A i \in 1 .. Len(chan) : val[i] = 0
    IN  IF all_zero THEN int8(-channel_num) ELSE to_add

\* sx with the channel count compared by >= one too far: 128 channels pass
readings_sx_limit_128(readings) ==
    IF num_channels(readings) > MAX_CHANNELS + 1
    THEN [err |-> "ValueError", bytes |-> <<>>]
    ELSE [err |-> "ok",
          bytes |-> uint8(num_channels(readings) % 256)
                    \o uint32(readings_len(readings))
                    \o Concat([channel_num \in 1 .. num_channels(readings) |->
                                 channel_block(channel(readings, channel_num),
                                               channel_num)])]

\* sx(readings): the bytes of the buffer, or the ValueError raised
readings_sx(readings) ==
    IF num_channels(readings) > MAX_CHANNELS
    THEN [err |-> "ValueError", bytes |-> <<>>]
    ELSE [err |-> "ok",
          bytes |-> uint8(num_channels(readings))
                    \o uint32(readings_len(readings))
                    \o Concat([channel_num \in 1 .. num_channels(readings) |->
                                 channel_block(channel(readings, channel_num),
                                               channel_num)])]

----------------------------------------------------------------------------
(* energy_profile.py: EnergyProfile, the statistic and its serialiser.     *)
(* An EnergyProfile is [id, kw_in, kw_out] with kw_in and kw_out Readings  *)
(* of one length (the constructor rejects any other).  Python's index i is *)
(* i + 1 here.                                                             *)

RECURSIVE SumChannels(_, _, _, _)
\* channel(lo)[i] + ... + channel(hi)[i]
SumChannels(readings, lo, hi, i) ==
    IF lo > hi THEN 0
    ELSE channel(readings, lo)[i] + SumChannels(readings, lo + 1, hi, i)

\* Readings.get: range(2, num_channels()) stops before the last channel
get(readings, i) ==
    IF num_channels(readings) = 1 THEN channel(readings, 1)[i]
    ELSE channel(readings, 1)[i]
         + SumChannels(readings, 2, num_channels(readings) - 1, i)

get_kw_in(energy_profile, i) == get(energy_profile.kw_in, i)

get_kw_out(energy_profile, i) == get(energy_profile.kw_out, i)

\* EnergyProfile.__len__
profile_len(energy_profile) == readings_len(energy_profile.kw_in)

\* Objects.  A Python list has an identity: lists[ref] is the contents of the
\* list ref, and appending to it is seen through every reference.  An
\* OneChannelReadings object is [_channel |-> ref]; an EnergyProfile object
\* is [_kw_in |-> readings, _kw_out |-> readings].

\* a new list object with the given items: the lists after it and its ref
alloc(ls, items) == [lists |-> Append(ls, items), ref |-> Len(ls) + 1]

\* OneChannelReadings(items_list) on a list made by the caller
OneChannelReadings(ls, items) ==
    LET a == alloc(ls, items)
    IN  [lists |-> a.lists, readings |-> [_channel |-> a.ref]]

\* the defaults made when the classes are defined: the list of
\* OneChannelReadings._channel (1) and the two OneChannelReadings() of
\* EnergyProfile._kw_in and _kw_out, each with its own copy of that list
DEFAULT_LISTS == <<<<>>, <<>>, <<>>>>

DEFAULT_KW_IN == [_channel |-> 2]

DEFAULT_KW_OUT == [_channel |-> 3]

\* OneChannelReadings.copy: return OneChannelReadings([])
copy(ls, readings) == OneChannelReadings(ls, <<>>)

\* the field is assigned the argument as it is, the default object included
field_value_shared(ls, given, default) == [lists |-> ls, readings |-> given]

\* the value a dataclass field is assigned: an argument that is the default
\* object and defines copy() is replaced by its copy, any other is kept
field_value(ls, given, default) ==
    IF given = default THEN copy(ls, given)
    ELSE [lists |-> ls, readings |-> given]

\* the Readings value of a readings object
readings_of(ls, readings) == <<ls[readings._channel]>>

\* EnergyProfile(id, dt, _kw_in, _kw_out): the fields, then __init__
EnergyProfile(ls, _kw_in, _kw_out) ==
    LET a == field_value(ls, _kw_in, DEFAULT_KW_IN)
        b == field_value(a.lists, _kw_out, DEFAULT_KW_OUT)
    IN  IF readings_len(readings_of(b.lists, a.readings))
             # readings_len(readings_of(b.lists, b.readings))
        THEN [err |-> "ValueError", lists |-> ls, profile |-> <<>>]
        ELSE [err |-> "ok", lists |-> b.lists,
              profile |-> [_kw_in |-> a.readings, _kw_out |-> b.readings]]

\* EnergyProfile.add_readings: append to channel(1) of _kw_in, then of _kw_out
add_readings(ls, profile, in_val, out_val) ==
    LET after_in == [ls EXCEPT ![profile._kw_in._channel] = Append(@, in_val)]
    IN  [after_in EXCEPT ![profile._kw_out._channel] = Append(@, out_val)]

EnergyProfileStat(kw_in, kw_out, kw_net) ==
    [kw_in |-> kw_in, kw_out |-> kw_out, kw_net |-> kw_net]

\* accumulating without the test of kwlen: on an empty profile the loop runs
\* zero times and the stat is made of the three seeds
accumulating_unchecked(energy_profile, accumulator, finalise, init_kw_in, init_kw_out, init_kw_net) ==
    LET kwlen == profile_len(energy_profile)
        loop[i \in 0 .. kwlen] ==
            IF i = 0
            THEN EnergyProfileStat(init_kw_in, init_kw_out, init_kw_net)
            ELSE LET kw_in == accumulator[loop[i - 1].kw_in,
                                          get_kw_in(energy_profile, i)]
                     kw_out == accumulator[loop[i - 1].kw_out,
                                           get_kw_in(energy_profile, i)]
                     kw_net == accumulator[kw_in,
                                           get_kw_in(energy_profile, i)
                                             - get_kw_out(energy_profile, i)]
                 IN  EnergyProfileStat(kw_in, kw_out, kw_net)
    IN  [err |-> "ok",
         stat |-> IF kwlen = 0 THEN loop[0]
                  ELSE EnergyProfileStat(finalise[kwlen, loop[kwlen].kw_in],
                                         finalise[kwlen, loop[kwlen].kw_out],
                                         finalise[kwlen, loop[kwlen].kw_net]),
         accumulator_calls |-> 3 * kwlen,
         finalise_calls |-> 3]

\* the EnergyProfileStat returned, or the ValueError raised, and how many times
\* each callable was called; the two callables are passed as functions of two
\* arguments
accumulating(energy_profile, accumulator, finalise, init_kw_in, init_kw_out, init_kw_net) ==
    LET kwlen == profile_len(energy_profile)
        \* the three locals after i passes of the loop
        loop[i \in 0 .. kwlen] ==
            IF i = 0
            THEN EnergyProfileStat(init_kw_in, init_kw_out, init_kw_net)
            ELSE LET kw_in == accumulator[loop[i - 1].kw_in,
                                          get_kw_in(energy_profile, i)]
                     kw_out == accumulator[loop[i - 1].kw_out,
                                           get_kw_in(energy_profile, i)]
                     kw_net == accumulator[kw_in,
                                           get_kw_in(energy_profile, i)
                                             - get_kw_out(energy_profile, i)]
                 IN  EnergyProfileStat(kw_in, kw_out, kw_net)
    IN  IF kwlen = 0
        THEN [err |-> "ValueError", stat |-> <<>>,
              accumulator_calls |-> 0, finalise_calls |-> 0]
        ELSE [err |-> "ok",
              stat |-> EnergyProfileStat(finalise[kwlen, loop[kwlen].kw_in],
                                         finalise[kwlen, loop[kwlen].kw_out],
                                         finalise[kwlen, loop[kwlen].kw_net]),
              accumulator_calls |-> 3 * kwlen,
              finalise_calls |-> 3]

\* sx(stat): three varints, no framing
eps_sx(stat) ==
    encode_7bit_long(round_milli(stat.kw_in))
    \o encode_7bit_long(round_milli(stat.kw_out))
    \o encode_7bit_long(round_milli(stat.kw_net))

\* Python's max(a, b)
max(a, b) == IF b > a THEN b ELSE a

\* lambda l, v: v
finalise_identity(l, v) == v

\* the seed -999999999999.9999 of kw_net, kept as written: it is beyond the
\* integers of the model, and no arithmetic is ever done on it
INIT_KW_NET == "-999999999999.9999"

\* write_maximum: eps = accumulating(energy_profile, max, lambda l, v: v, ...)
maximum_stat(energy_profile) ==
    accumulating(energy_profile,
                 [a \in Int, b \in Int |-> max(a, b)],
                 [l \in Int, v \in Int |-> finalise_identity(l, v)],
                 0, 0, INIT_KW_NET)

----------------------------------------------------------------------------
(* cacheable_serialiser.py: two module-level BitStreams, true_value and    *)
(* false_value, of one byte each, and their read positions.                *)

true_value == uint8(1)

false_value == uint8(0)

\* BitStream.read("bytes") with .bytepos = pos: the bytes from the position
\* to the end, and the position moves to the end
read_bytes(stream, pos) ==
    [bytes |-> SubSeq(stream, pos + 1, Len(stream)), pos |-> Len(stream)]

\* sx(item) with the streams at t_pos and f_pos: the bytes returned and the
\* positions it leaves
cacheable_sx(item, t_pos, f_pos) ==
    IF item
    THEN LET r == read_bytes(true_value, 0)
         IN  [bytes |-> r.bytes, true_pos |-> r.pos, false_pos |-> f_pos]
    ELSE LET r == read_bytes(false_value, f_pos)
         IN  [bytes |-> r.bytes, true_pos |-> 0, false_pos |-> r.pos]

----------------------------------------------------------------------------
(* id_date_range.py: IdDateRange is [id, from_, to], a date [year, month,  *)
(* day].                                                                   *)

\* sx with the day appended before the month
date_range_sx_day_first(date_range) ==
    uint32(date_range.from_.year) \o uint8(date_range.from_.day)
    \o uint8(date_range.from_.month)
    \o uint32(date_range.to.year) \o uint8(date_range.to.day)
    \o uint8(date_range.to.month)

\* IdDateRange.sx: the bytes of the buffer returned
date_range_sx(date_range) ==
    uint32(date_range.from_.year) \o uint8(date_range.from_.month)
    \o uint8(date_range.from_.day)
    \o uint32(date_range.to.year) \o uint8(date_range.to.month)
    \o uint8(date_range.to.day)

\* str(n) padded with zeros to width digits
zero_padded(n, width) ==
    LET digits == ToString(n)
        pad[k \in 0 .. width] == IF k = 0 THEN "" ELSE "0" \o pad[k - 1]
    IN  IF Len(digits) >= width THEN digits
        ELSE pad[width - Len(digits)] \o digits

\* date.isoformat(): YYYY-MM-DD
isoformat(dt) ==
    zero_padded(dt.year, 4) \o "-" \o zero_padded(dt.month, 2) \o "-"
    \o zero_padded(dt.day, 2)

----------------------------------------------------------------------------
(* sqlitedb.py and SQLite.  The file holds, per table of SCHEMA, its       *)
(* committed rows: a set of [id, ...] rows for a table with a primary key, *)
(* a sequence of rows for a table without one.  A statement runs in a      *)
(* transaction t = [db, err, began, locked, true_pos, false_pos]: db is    *)
(* the contents the connection sees, err the exception in flight ("ok"     *)
(* when none), began says a statement was executed (the connection then    *)
(* holds the write lock until it commits or is closed), locked says        *)
(* another connection holds the write lock.                                *)

\* the value of a subquery without rows
NULL == 0

\* create_schema of SqliteReadingsDatabase
readings_schema ==
    [schema_version |-> <<>>, entity_ids |-> {}, metadata |-> <<>>,
     W_out |-> {}, W_in |-> {}, cacheable |-> {}, maximums |-> {}]

\* create_schema of IndexSqliteDatabase, which also inserts the version
index_schema ==
    [schema_version |-> <<"1">>, entity_ids |-> {}, metadata |-> <<>>,
     dateRange |-> {}]

\* the tables of the file that hold blobs keyed by entity
blob_tables(k) ==
    IF k = "readings" THEN {"W_in", "W_out", "maximums", "cacheable"}
    ELSE {"dateRange"}

\* sqlite3.connect and the cursor, before any statement
begin(d, locked, t_pos, f_pos) ==
    [db |-> d, err |-> "ok", began |-> FALSE, locked |-> locked,
     true_pos |-> t_pos, false_pos |-> f_pos]

\* raise err, unless an exception is already in flight
raise(t, err) == IF t.err = "ok" THEN [t EXCEPT !.err = err] ELSE t

\* id INTEGER PRIMARY KEY AUTOINCREMENT given NULL: one more than the largest
\* id ever held (sqlite_sequence is rolled back with the rows)
next_id(rows) ==
    IF rows = {} THEN 1
    ELSE 1 + (CHOOSE n \in {r.id : r \in rows} : \A r \in rows : r.id <= n)

\* (SELECT id FROM entity_ids where entity_id = ?)
SELECT_ID_FROM_INDEX(d, entity_id) ==
    IF \E r \in d.entity_ids : r.entity_id = entity_id
    THEN (CHOOSE r \in d.entity_ids : r.entity_id = entity_id).id
    ELSE NULL

\* INSERT INTO entity_ids VALUES (NULL, '{id}'), under the unique index
\* entity_ids_idx
insert_entity_id(t, entity_id) ==
    IF t.err # "ok" THEN t
    ELSE IF t.locked THEN raise(t, "OperationalError: database is locked")
    ELSE IF \E r \in t.db.entity_ids : r.entity_id = entity_id
    THEN [raise(t, "IntegrityError: UNIQUE constraint failed")
            EXCEPT !.began = TRUE]
    ELSE [t EXCEPT !.began = TRUE,
                   !.db.entity_ids =
                       @ \cup {[id |-> next_id(@), entity_id |-> entity_id]}]

insert_blob_rowid_table(t, table, entity_id, data) ==
    IF t.err # "ok" THEN t
    ELSE IF t.locked THEN raise(t, "OperationalError: database is locked")
    ELSE LET id == SELECT_ID_FROM_INDEX(t.db, entity_id)
         IN  IF \E r \in t.db[table] : r.id = id
             THEN [raise(t, "IntegrityError: UNIQUE constraint failed")
                     EXCEPT !.began = TRUE]
             ELSE [t EXCEPT !.began = TRUE,
                            !.db[table] = @ \cup {[id |-> id, data |-> data]}]

\* INSERT INTO <table> (id, data) VALUES ((SELECT id ...), ?) on a table
\* declared (id INTEGER PRIMARY KEY, data BLOB) WITHOUT ROWID: the key is
\* NOT NULL and unique
insert_blob(t, table, entity_id, data) ==
    IF t.err # "ok" THEN t
    ELSE IF t.locked THEN raise(t, "OperationalError: database is locked")
    ELSE LET id == SELECT_ID_FROM_INDEX(t.db, entity_id)
         IN  IF id = NULL
             THEN [raise(t, "IntegrityError: NOT NULL constraint failed")
                     EXCEPT !.began = TRUE]
             ELSE IF \E r \in t.db[table] : r.id = id
             THEN [raise(t, "IntegrityError: UNIQUE constraint failed")
                     EXCEPT !.began = TRUE]
             ELSE [t EXCEPT !.began = TRUE,
                            !.db[table] = @ \cup {[id |-> id, data |-> data]}]

\* INSERT INTO <table> VALUES (...) on a table without a key
insert_row(t, table, row) ==
    IF t.err # "ok" THEN t
    ELSE IF t.locked THEN raise(t, "OperationalError: database is locked")
    ELSE [t EXCEPT !.began = TRUE, !.db[table] = Append(@, row)]

RECURSIVE write_entity_ids_from(_, _, _)
\* the loop of write_entity_ids from item i
write_entity_ids_from(t, entity_ids, i) ==
    IF i > Len(entity_ids) THEN t
    ELSE write_entity_ids_from(insert_entity_id(t, entity_ids[i]),
                               entity_ids, i + 1)

write_entity_ids(t, entity_ids) == write_entity_ids_from(t, entity_ids, 1)

\* write_metadata: schema_version is TEXT, so 1 is stored as '1'
write_metadata(t, dt) ==
    insert_row(insert_row(insert_row(t, "metadata",
                                     [key |-> "date", value |-> dt]),
                          "metadata",
                          [key |-> "timezone", value |-> "Australia/Sydney"]),
               "schema_version", "1")

finalise(t, dt) == write_metadata(t, isoformat(dt))

write_maximum(t, energy_profile) ==
    IF t.err # "ok" THEN t
    ELSE LET eps == maximum_stat(energy_profile)
         IN  IF eps.err # "ok" THEN raise(t, eps.err)
             ELSE insert_blob(t, "maximums", energy_profile.id,
                              eps_sx(eps.stat))

write_cacheable(t, id, cacheable) ==
    IF t.err # "ok" THEN t
    ELSE LET r == cacheable_sx(cacheable, t.true_pos, t.false_pos)
         IN  insert_blob([t EXCEPT !.true_pos = r.true_pos,
                                   !.false_pos = r.false_pos],
                         "cacheable", id, r.bytes)

\* the body of the loop of write_readings for one profile
write_profile(t, profile) ==
    IF t.err # "ok" THEN t
    ELSE LET serialised_readings_in == readings_sx(profile.kw_in)
             serialised_readings_out == readings_sx(profile.kw_out)
         IN  IF serialised_readings_in.err # "ok"
             THEN raise(t, serialised_readings_in.err)
             ELSE IF serialised_readings_out.err # "ok"
             THEN raise(t, serialised_readings_out.err)
             ELSE write_cacheable(
                      write_maximum(
                          insert_blob(
                              insert_blob(t, "W_in", profile.id,
                                          serialised_readings_in.bytes),
                              "W_out", profile.id,
                              serialised_readings_out.bytes),
                          profile),
                      profile.id, TRUE)

RECURSIVE write_readings_from(_, _, _)
write_readings_from(t, energy_profiles, i) ==
    IF i > Len(energy_profiles) THEN t
    ELSE write_readings_from(write_profile(t, energy_profiles[i]),
                             energy_profiles, i + 1)

write_readings(t, energy_profiles) == write_readings_from(t, energy_profiles, 1)

write_index(t, id, date_range) ==
    insert_blob(t, "dateRange", id, date_range_sx(date_range))

commit_always(d, t) == t.db

\* the file after the with-block of connection() is left with t: the code
\* after the yield (commit, close) runs only when no exception is in flight,
\* and a connection that is never committed loses its transaction
commit(d, t) == IF t.err = "ok" THEN t.db ELSE d

\* conn.close() was reached
closed(t) == t.err = "ok"

----------------------------------------------------------------------------
(* The state of the database model outside the specification in hand.      *)

DbIdle ==
    /\ kind = "readings"
    /\ db = <<>>
    /\ unclosed = FALSE
    /\ write_lock = FALSE
    /\ last = [op |-> "none", outcome |-> "ok"]

\* cacheable_serialiser as imported: both streams at position 0, no call yet
SxIdle ==
    /\ true_pos = 0
    /\ false_pos = 0
    /\ calls = <<>>

\* the classes as defined, no EnergyProfile constructed
EpIdle ==
    /\ lists = DEFAULT_LISTS
    /\ profiles = <<>>

FnIdle ==
    /\ input = <<>>
    /\ output = <<>>
    /\ pc = "done"

----------------------------------------------------------------------------
(* SpecVarint: encode_7bit_long applied to one integer.                    *)

\* the integers next to a change of the varint's length, of either sign
BoundaryValues ==
    {8191, 8192, -8192, -8193, 1048575, 1048576, -1048576, -1048577,
     134217727, 134217728, -134217728, -134217729, 1073741823, -1073741824}

VarintValues == (-MaxVal .. MaxVal) \cup BoundaryValues

InitVarint ==
    /\ DbIdle
    /\ SxIdle
    /\ EpIdle
    /\ input \in VarintValues
    /\ output = <<>>
    /\ pc = "call"

Encode7BitLong ==
    /\ pc = "call"
    /\ output' = encode_7bit_long(input)
    /\ pc' = "done"
    /\ UNCHANGED <<dbvars, sxvars, epvars, input>>

NextVarint == Encode7BitLong

SpecVarint == InitVarint /\ [][NextVarint]_vars

----------------------------------------------------------------------------
(* The reference decoder the round-trip properties are stated against:     *)
(* base-128 little-endian varint, then the inverse of zigzag.  The program *)
(* only encodes; this is the reader of its format.                         *)

RECURSIVE read_varint(_, _)
\* the varint that starts at index pos of bytes: its unsigned value and the
\* index after its last byte (0 when the bytes end inside the varint)
read_varint(bytes, pos) ==
    IF pos > Len(bytes) THEN [val |-> 0, next |-> 0]
    ELSE IF bytes[pos] < 128 THEN [val |-> bytes[pos], next |-> pos + 1]
    ELSE LET r == read_varint(bytes, pos + 1)
         IN  [val |-> (bytes[pos] % 128) + 128 * r.val,
              next |-> IF r.next = 0 THEN 0 ELSE r.next]

\* (u >> 1) ^ -(u & 1)
decode_zigzag(u) == IF u % 2 = 0 THEN u \div 2 ELSE -(u \div 2) - 1

RECURSIVE bit_length(_)
\* the number of binary digits of u >= 0
bit_length(u) == IF u = 0 THEN 0 ELSE 1 + bit_length(u \div 2)

CeilDiv(a, b) == (a + b - 1) \div b

----------------------------------------------------------------------------
(* Claims on SpecVarint.                                                   *)

\* C1: decoding the bytes encode_7bit_long(v) produces (varint decode, then
\* zigzag inverse) consumes them all and yields exactly v, and
\* encode_zigzag(v) is 2v for v >= 0 and -2v-1 for v < 0.
C1_RoundTrip ==
    pc = "done" =>
        /\ encode_zigzag(input) = (IF input >= 0 THEN 2 * input ELSE -2 * (input + 1) + 1)
        /\ LET r == read_varint(output, 1)
           IN  /\ r.next = Len(output) + 1
               /\ decode_zigzag(r.val) = input

\* a negative integer whose varint takes several bytes has been encoded
C1_Witness == pc = "done" /\ input < -MaxVal /\ Len(output) >= 3

\* C10: the varint of u = encode_zigzag(v) has 1 byte for u = 0 and otherwise
\* ceil(bit_length(u) / 7) bytes; every byte but the last has the high bit
\* set, the last has it clear, and at least one byte is emitted.
C10_MinimalLength ==
    pc = "done" =>
        LET u == encode_zigzag(input)
        IN  /\ Len(output) >= 1
            /\ Len(output) = (IF u = 0 THEN 1 ELSE CeilDiv(bit_length(u), 7))
            /\ \A i \in 1 .. Len(output) - 1 : output[i] \in 128 .. 255
            /\ output[Len(output)] \in 0 .. 127

\* a value whose 7-bit group count is five has been encoded
C10_Witness == pc = "done" /\ Len(output) = 5 /\ output[5] # 0

----------------------------------------------------------------------------
(* SpecReadings: readings.sx applied to one Readings.                      *)

\* a sample of zero, one that rounds to zero (a tie), a negative one that
\* rounds away from zero, and one whose varint takes two bytes
SampleValues == {0, SubSteps \div 2, -(2 * SubSteps - 1), 2 * MaxVal * SubSteps}

\* the sequences of length m over S
Seqs(S, m) == [1 .. m -> S]

SmallReadings ==
    UNION {[1 .. n -> Seqs(SampleValues, m)] :
             n \in 1 .. MaxChannels, m \in 0 .. MaxSamples}

\* Readings of the largest channel count sx accepts, and of one more
WideReadings ==
    {[k \in 1 .. n |-> IF k % 2 = 0 THEN <<x>> ELSE <<y>>] :
       n \in {MAX_CHANNELS, MAX_CHANNELS + 1}, x \in SampleValues, y \in {0, -SubSteps}}

ReadingsInputs == SmallReadings \cup WideReadings

InitReadings ==
    /\ DbIdle
    /\ SxIdle
    /\ EpIdle
    /\ input \in ReadingsInputs
    /\ output = <<>>
    /\ pc = "call"

ReadingsSx ==
    /\ pc = "call"
    /\ output' = readings_sx(input)
    /\ pc' = "done"
    /\ UNCHANGED <<dbvars, sxvars, epvars, input>>

NextReadings == ReadingsSx

SpecReadings == InitReadings /\ [][NextReadings]_vars

----------------------------------------------------------------------------
(* The reference decoder of a serialised Readings.  It reads the bytes     *)
(* alone: the header, then per channel either the one-byte negative marker *)
(* or the channel number and sample_count varints.                         *)

RECURSIVE read_varints(_, _, _)
\* count varints from index pos: the zigzag-decoded values and the index
\* after them (0 when the bytes end early)
read_varints(bytes, pos, count) ==
    IF count = 0 THEN [vals |-> <<>>, next |-> pos]
    ELSE LET v == read_varint(bytes, pos)
         IN  IF v.next = 0 THEN [vals |-> <<>>, next |-> 0]
             ELSE LET r == read_varints(bytes, v.next, count - 1)
                  IN  [vals |-> <<decode_zigzag(v.val)>> \o r.vals,
                       next |-> r.next]

\* channel k of m samples from index pos: its values and the indexes of its
\* first byte and after its last byte (next is 0 when the bytes are malformed)
read_channel(bytes, pos, k, m) ==
    IF pos = 0 \/ pos > Len(bytes)
    THEN [vals |-> <<>>, zero |-> FALSE, first |-> pos, next |-> 0]
    ELSE IF bytes[pos] = 256 - k
    THEN [vals |-> [i \in 1 .. m |-> 0], zero |-> TRUE,
          first |-> pos, next |-> pos + 1]
    ELSE IF bytes[pos] = k
    THEN LET c == read_varints(bytes, pos + 1, m)
         IN  [vals |-> c.vals, zero |-> FALSE, first |-> pos, next |-> c.next]
    ELSE [vals |-> <<>>, zero |-> FALSE, first |-> pos, next |-> 0]

RECURSIVE read_channels(_, _, _, _, _)
\* channels lo .. hi of m samples from index pos, in order
read_channels(bytes, pos, lo, hi, m) ==
    IF lo > hi THEN [chans |-> <<>>, next |-> pos]
    ELSE IF lo = hi
    THEN LET c == read_channel(bytes, pos, lo, m)
         IN  [chans |-> <<c>>, next |-> c.next]
    ELSE LET mid == (lo + hi) \div 2
             l == read_channels(bytes, pos, lo, mid, m)
             r == read_channels(bytes, l.next, mid + 1, hi, m)
         IN  [chans |-> l.chans \o r.chans, next |-> r.next]

\* ok: the bytes are a well-formed Readings with nothing after it
decode_readings(bytes) ==
    IF Len(bytes) < 5 THEN [ok |-> FALSE, chans |-> <<>>]
    ELSE LET r == read_channels(bytes, 6, 1, bytes[1],
                     16777216 * bytes[2] + 65536 * bytes[3] + 256 * bytes[4]
                       + bytes[5])
         IN  [ok |-> r.next = Len(bytes) + 1, chans |-> r.chans]

Abs(a) == IF a < 0 THEN -a ELSE a

----------------------------------------------------------------------------
(* Claims on SpecReadings.                                                 *)

\* C2: for 1 <= n <= 127 channels of m samples the bytes are [u8 n][u32 m]
\* and one block per channel in order; a decoder given only the bytes
\* recovers round(sample * 1000) for every channel and index, each within
\* 0.0005 kW of the sample.  (The decoder is a function of the bytes, so two
\* Readings with the same bytes have the same quantised contents.)
C2_ReadingsRoundTrip ==
    (pc = "done" /\ num_channels(input) <= MAX_CHANNELS) =>
        /\ output.err = "ok"
        /\ SubSeq(output.bytes, 1, 5)
             = <<num_channels(input), 0, 0, 0, readings_len(input)>>
        /\ LET d == decode_readings(output.bytes)
           IN  /\ d.ok
               /\ Len(d.chans) = num_channels(input)
               /\ \A k \in 1 .. num_channels(input) :
                    /\ Len(d.chans[k].vals) = readings_len(input)
                    /\ \A i \in 1 .. readings_len(input) :
                         /\ d.chans[k].vals[i] = round_milli(input[k][i])
                         /\ 2 * Abs(d.chans[k].vals[i] * SubSteps - input[k][i])
                              <= SubSteps

\* a two-channel Readings with a zero channel and a channel holding a
\* negative and a two-byte sample has been serialised
C2_Witness ==
    /\ pc = "done"
    /\ num_channels(input) = 2
    /\ readings_len(input) = 2
    /\ input[1] = <<0, SubSteps \div 2>>
    /\ input[2] = <<-(2 * SubSteps - 1), 2 * MaxVal * SubSteps>>
    /\ Len(output.bytes) = 10

\* C3: a channel k whose every quantised sample is zero contributes exactly
\* the one byte -k (signed 8-bit), for every sample count including 0; any
\* other channel contributes the byte k and exactly m varints.
C3_ZeroChannelMarker ==
    (pc = "done" /\ num_channels(input) <= MAX_CHANNELS) =>
        LET d == decode_readings(output.bytes)
            m == readings_len(input)
        IN  /\ d.ok
            /\ Len(d.chans) = num_channels(input)
            /\ \A k \in 1 .. num_channels(input) :
                 LET c == d.chans[k]
                     all_zero == \A i \in 1 .. m : round_milli(input[k][i]) = 0
                 IN  IF all_zero
                     THEN /\ c.next - c.first = 1
                          /\ output.bytes[c.first] = 256 - k
                     ELSE /\ output.bytes[c.first] = k
                          /\ Cardinality({j \in c.first + 1 .. c.next - 1 :
                                            output.bytes[j] < 128}) = m
                          /\ c.next - c.first >= 1 + m

\* a channel of two non-zero samples that both round to zero was written as
\* the marker, next to a channel that was not
C3_Witness ==
    /\ pc = "done"
    /\ num_channels(input) = 2
    /\ input[1] = <<SubSteps \div 2, SubSteps \div 2>>
    /\ input[2] = <<0, -(2 * SubSteps - 1)>>
    /\ output.bytes[6] = 255
    /\ output.bytes[7] = 2

\* C11: sx fails with the error, and yields no bytes, for every Readings of
\* more than 127 channels (128 among them); for every Readings of 1 to 127
\* channels it does not fail.
C11_ChannelLimit ==
    pc = "done" =>
        /\ num_channels(input) > 127
              => output = [err |-> "ValueError", bytes |-> <<>>]
        /\ num_channels(input) \in 1 .. 127
              => (output.err = "ok" /\ Len(output.bytes) >= 5 + num_channels(input))

\* sx was called with 128 channels and raised
C11_Witness ==
    /\ pc = "done"
    /\ num_channels(input) = 128
    /\ output.err = "ValueError"

----------------------------------------------------------------------------
(* SpecStat: the statistic write_maximum computes for one EnergyProfile.   *)

\* one kW in sample units
KW == MILLI * SubSteps

\* 0.0, 0.5, 1.0, 2.0 and -1.0 kW
StatSamples == {0, KW \div 2, KW, 2 * KW, -KW}

StatProfiles ==
    UNION {[id : {"T1"},
            kw_in : {<<c>> : c \in Seqs(StatSamples, m)},
            kw_out : {<<c>> : c \in Seqs(StatSamples, m)}] :
             m \in 0 .. MaxSamples}

InitStat ==
    /\ DbIdle
    /\ SxIdle
    /\ EpIdle
    /\ input \in StatProfiles
    /\ output = <<>>
    /\ pc = "call"

MaximumStat ==
    /\ pc = "call"
    /\ output' = maximum_stat(input)
    /\ pc' = "done"
    /\ UNCHANGED <<dbvars, sxvars, epvars, input>>

NextStat == MaximumStat

SpecStat == InitStat /\ [][NextStat]_vars

\* the greatest element of a non-empty set of integers
Maximum(S) == CHOOSE x \in S : \A y \in S : y <= x

\* C4: for a profile with at least one sample the statistic stored has
\* kw_in = max of the kw_in samples, kw_out = max of the kw_out samples and
\* kw_net = max over i of kw_in[i] - kw_out[i], also when every sample of a
\* series is negative.
C4_StatIsPerSeriesMaximum ==
    (pc = "done" /\ profile_len(input) >= 1) =>
        LET I == 1 .. profile_len(input)
        IN  /\ output.err = "ok"
            /\ output.stat.kw_in = Maximum({input.kw_in[1][i] : i \in I})
            /\ output.stat.kw_out = Maximum({input.kw_out[1][i] : i \in I})
            /\ output.stat.kw_net
                 = Maximum({input.kw_in[1][i] - input.kw_out[1][i] : i \in I})

\* C12: accumulating raises, returning no EnergyProfileStat and calling neither
\* the accumulator nor the finishing transform, exactly when the profile has
\* zero samples; for a profile with at least one sample it returns a stat.
C12_EmptyProfileRejected ==
    pc = "done" =>
        /\ (output.err # "ok") <=> (profile_len(input) = 0)
        /\ output.err # "ok"
              => /\ output.err = "ValueError"
                 /\ output.stat = <<>>
                 /\ output.accumulator_calls = 0
                 /\ output.finalise_calls = 0
        /\ profile_len(input) >= 1
              => /\ output.stat.kw_in \in Int
                 /\ output.stat.kw_out \in Int
                 /\ output.stat.kw_net \in Int

\* accumulating was called on a profile without samples and raised, and on
\* this state nothing was accumulated
C12_Witness ==
    /\ pc = "done"
    /\ profile_len(input) = 0
    /\ output.err = "ValueError"
    /\ output.accumulator_calls = 0

----------------------------------------------------------------------------
(* SpecProfile: EnergyProfile objects are constructed, with the default    *)
(* readings or with readings of the caller, and add_readings is called on  *)
(* them.                                                                   *)

\* add_readings(1.0), add_readings(2.0) and add_readings(1.0, 0.5)
AddValues == {<<KW, 0>>, <<2 * KW, 0>>, <<KW, KW \div 2>>}

\* the sample lists a caller builds its own OneChannelReadings from
GivenItems == {<<>>, <<KW>>}

InitProfile ==
    /\ DbIdle
    /\ SxIdle
    /\ EpIdle
    /\ FnIdle

\* the constructor returned r
Constructed(r) ==
    /\ IF r.err = "ok"
       THEN /\ lists' = r.lists
            /\ profiles' = Append(profiles, r.profile)
       ELSE UNCHANGED epvars
    /\ output' = r.err
    /\ UNCHANGED <<dbvars, sxvars, input, pc>>

\* EnergyProfile(id, dt)
NewEnergyProfile ==
    /\ Len(profiles) < MaxProfiles
    /\ Constructed(EnergyProfile(lists, DEFAULT_KW_IN, DEFAULT_KW_OUT))

\* EnergyProfile(id, dt, OneChannelReadings(in_items), OneChannelReadings(out_items))
NewEnergyProfileWith ==
    /\ Len(profiles) < MaxProfiles
    /\ \E in_items \in GivenItems, out_items \in GivenItems :
          LET a == OneChannelReadings(lists, in_items)
              b == OneChannelReadings(a.lists, out_items)
          IN  Constructed(EnergyProfile(b.lists, a.readings, b.readings))

AddReadings ==
    \E p \in DOMAIN profiles, v \in AddValues :
        /\ Len(lists[profiles[p]._kw_in._channel]) < MaxSamples
        /\ Len(lists[profiles[p]._kw_out._channel]) < MaxSamples
        /\ lists' = add_readings(lists, profiles[p], v[1], v[2])
        /\ output' = "ok"
        /\ UNCHANGED <<dbvars, sxvars, profiles, input, pc>>

NextProfile == NewEnergyProfile \/ NewEnergyProfileWith \/ AddReadings

SpecProfile == InitProfile /\ [][NextProfile]_vars

\* C13: len(kw_in) = len(kw_out) for every EnergyProfile in every state after
\* construction and any calls of add_readings; a call of add_readings makes
\* both lengths of its profile one greater and leaves the readings of every
\* other profile as they were, and so does a construction.
C13_LengthsAgreeUnshared ==
    [][/\ \A p \in DOMAIN profiles' :
            Len(lists'[profiles'[p]._kw_in._channel])
              = Len(lists'[profiles'[p]._kw_out._channel])
       /\ (profiles' = profiles /\ lists' # lists) =>
            \E p \in DOMAIN profiles :
                /\ Len(lists'[profiles[p]._kw_in._channel])
                     = Len(lists[profiles[p]._kw_in._channel]) + 1
                /\ Len(lists'[profiles[p]._kw_out._channel])
                     = Len(lists[profiles[p]._kw_out._channel]) + 1
                /\ \A q \in DOMAIN profiles \ {p} :
                     /\ lists'[profiles[q]._kw_in._channel]
                          = lists[profiles[q]._kw_in._channel]
                     /\ lists'[profiles[q]._kw_out._channel]
                          = lists[profiles[q]._kw_out._channel]
       /\ profiles' # profiles =>
            \A q \in DOMAIN profiles :
                /\ profiles'[q] = profiles[q]
                /\ lists'[profiles[q]._kw_in._channel]
                     = lists[profiles[q]._kw_in._channel]
                /\ lists'[profiles[q]._kw_out._channel]
                     = lists[profiles[q]._kw_out._channel]]_vars

\* two profiles built with the default readings: add_readings was called
\* twice on the first and never on the second
C13_Witness ==
    /\ Len(profiles) = 2
    /\ Len(lists) = 7
    /\ lists[profiles[1]._kw_in._channel] = <<KW, KW>>
    /\ lists[profiles[1]._kw_out._channel] = <<0, KW \div 2>>
    /\ lists[profiles[2]._kw_in._channel] = <<>>
    /\ lists[profiles[2]._kw_out._channel] = <<>>

----------------------------------------------------------------------------
(* SpecRange: IdDateRange.sx applied to one IdDateRange.                   *)

\* datetime.date: years from MINYEAR to MAXYEAR, at each change of the
\* number of bytes the year needs, and the first and last day of a month
RangeDates ==
    [year : {1, 255, 256, 2021, 9999}, month : {1, 12}, day : {1, 31}]

RangeInputs == [id : {"T1", "T2"}, from_ : RangeDates, to : RangeDates]

InitRange ==
    /\ DbIdle
    /\ SxIdle
    /\ EpIdle
    /\ input \in RangeInputs
    /\ output = <<>>
    /\ pc = "call"

DateRangeSx ==
    /\ pc = "call"
    /\ output' = date_range_sx(input)
    /\ pc' = "done"
    /\ UNCHANGED <<dbvars, sxvars, epvars, input>>

NextRange == DateRangeSx

SpecRange == InitRange /\ [][NextRange]_vars

\* the unsigned integer that bytes[first .. first + 3] hold, most significant
\* byte first
BigEndian32(bytes, first) ==
    ((bytes[first] * 256 + bytes[first + 1]) * 256 + bytes[first + 2]) * 256
    + bytes[first + 3]

\* the fields of a date range are laid out in bytes as from.year (u32, most
\* significant byte first), from.month, from.day, to.year (u32), to.month,
\* to.day, and there is nothing after them
RangeLayout ==
    /\ \A i \in 1 .. Len(output) : output[i] \in 0 .. 255
    /\ Len(output) >= 12
    /\ BigEndian32(output, 1) = input.from_.year
    /\ output[5] = input.from_.month
    /\ output[6] = input.from_.day
    /\ BigEndian32(output, 7) = input.to.year
    /\ output[11] = input.to.month
    /\ output[12] = input.to.day

\* C14 as stated: sx returns exactly 10 bytes holding from.year as a
\* big-endian u32, from.month and from.day as u8, then to.year, to.month and
\* to.day likewise.
C14_TenByteRecord ==
    pc = "done" => (Len(output) = 10 /\ RangeLayout)

\* C14 amended: sx returns exactly 12 bytes, from.year (big-endian u32),
\* from.month (u8), from.day (u8), to.year (big-endian u32), to.month (u8),
\* to.day (u8) in that order, and the entity id is not part of them.
C14_TwelveByteRecord ==
    pc = "done" => (Len(output) = 12 /\ RangeLayout)

\* the range 2021-01-01 .. 2021-01-31 was serialised
C14_Witness ==
    /\ pc = "done"
    /\ input.from_ = [year |-> 2021, month |-> 1, day |-> 1]
    /\ input.to = [year |-> 2021, month |-> 1, day |-> 31]
    /\ output = <<0, 0, 7, 229, 1, 1, 0, 0, 7, 229, 1, 31>>

----------------------------------------------------------------------------
(* SpecSx: a sequence of calls of cacheable_serialiser.sx.                 *)

InitSx ==
    /\ DbIdle
    /\ SxIdle
    /\ EpIdle
    /\ FnIdle

CacheableSx(item) ==
    /\ Len(calls) < MaxCalls
    /\ LET r == cacheable_sx(item, true_pos, false_pos)
       IN  /\ calls' = Append(calls, [item |-> item, bytes |-> r.bytes])
           /\ true_pos' = r.true_pos
           /\ false_pos' = r.false_pos
    /\ UNCHANGED <<dbvars, epvars, fnvars>>

NextSx == \E item \in BOOLEAN : CacheableSx(item)

SpecSx == InitSx /\ [][NextSx]_vars

\* C5: in every sequence of calls, each call returns exactly one byte, 0x01
\* for true and 0x00 for false, whatever the calls before it.
C5_OneByteEachCall ==
    \A i \in 1 .. Len(calls) :
        calls[i].bytes = (IF calls[i].item THEN <<1>> ELSE <<0>>)

----------------------------------------------------------------------------
(* Spec: one database file and the calls made on it.  A call is two steps: *)
(* Call puts the operation and its arguments in input, and the operation's *)
(* action runs the whole method and leaves its outcome in last.            *)

EntityNames == {"T1", "T2"}

Dates == {[year |-> 2021, month |-> 1, day |-> 1],
          [year |-> 2021, month |-> 1, day |-> 31]}

\* the readings of the profiles written: kw_in = [1.0, 2.0] with kw_out =
\* [0.5, 0.5]; no sample at all; and a kw_in of MAX_CHANNELS + 1 channels
ProfileReadings ==
    {[kw_in |-> <<<<KW, 2 * KW>>>>, kw_out |-> <<<<KW \div 2, KW \div 2>>>>],
     [kw_in |-> <<<<>>>>, kw_out |-> <<<<>>>>],
     [kw_in |-> [k \in 1 .. MAX_CHANNELS + 1 |-> <<0>>], kw_out |-> <<<<0>>>>]}

Profiles ==
    {[id |-> id, kw_in |-> r.kw_in, kw_out |-> r.kw_out] :
       id \in EntityNames, r \in ProfileReadings}

\* the day of the file
FinaliseDates == {[year |-> 2021, month |-> 1, day |-> 1]}

DateRanges ==
    {[id |-> id, from_ |-> f, to |-> t] :
       id \in EntityNames, f \in Dates, t \in Dates}

\* the calls that can be made on the file in the current state
Calls ==
    {[op |-> "write_entity_ids", args |-> ids] :
       ids \in UNION {Seqs(EntityNames, n) : n \in 0 .. MaxBatch}}
    \cup (IF kind = "readings"
          THEN {[op |-> "write_readings", args |-> ps] :
                  ps \in UNION {Seqs(Profiles, n) : n \in 0 .. MaxBatch}}
               \cup {[op |-> "finalise", args |-> dt] :
                       dt \in IF Len(db.schema_version) < MaxFinalise
                              THEN FinaliseDates ELSE {}}
          ELSE {[op |-> "write_index", args |-> [id |-> id, date_range |-> r]] :
                  id \in EntityNames, r \in DateRanges})

Init ==
    /\ kind \in {"readings", "index"}
    /\ db = (IF kind = "readings" THEN readings_schema ELSE index_schema)
    /\ unclosed = FALSE
    /\ write_lock = FALSE
    /\ last = [op |-> "create_schema", outcome |-> "ok"]
    /\ SxIdle
    /\ EpIdle
    /\ FnIdle

Call ==
    /\ pc = "done"
    /\ input' \in Calls
    /\ pc' = "call"
    /\ UNCHANGED <<dbvars, sxvars, epvars, output>>

\* leaving the with-blocks of cursor() and connection() with transaction t
Exit(op, t) ==
    /\ db' = commit(db, t)
    /\ unclosed' = (unclosed \/ ~closed(t))
    /\ write_lock' = (write_lock \/ (~closed(t) /\ t.began))
    /\ last' = [op |-> op, outcome |-> t.err]
    /\ true_pos' = t.true_pos
    /\ false_pos' = t.false_pos
    /\ input' = <<>>
    /\ pc' = "done"
    /\ UNCHANGED <<kind, calls, epvars, output>>

Enter == begin(db, write_lock, true_pos, false_pos)

WriteEntityIds ==
    /\ pc = "call"
    /\ input.op = "write_entity_ids"
    /\ Exit("write_entity_ids", write_entity_ids(Enter, input.args))

WriteReadings ==
    /\ pc = "call"
    /\ input.op = "write_readings"
    /\ Exit("write_readings", write_readings(Enter, input.args))

Finalise ==
    /\ pc = "call"
    /\ input.op = "finalise"
    /\ Exit("finalise", finalise(Enter, input.args))

WriteIndex ==
    /\ pc = "call"
    /\ input.op = "write_index"
    /\ Exit("write_index",
            write_index(Enter, input.args.id, input.args.date_range))

\* the interpreter finalises the connections that were left open: each is
\* closed, and a transaction that was not committed is undone
Collect ==
    /\ pc = "done"
    /\ unclosed
    /\ unclosed' = FALSE
    /\ write_lock' = FALSE
    /\ UNCHANGED <<kind, db, last, sxvars, epvars, fnvars>>

Next ==
    \/ Call
    \/ WriteEntityIds
    \/ WriteReadings
    \/ Finalise
    \/ WriteIndex
    \/ Collect

Spec == Init /\ [][Next]_vars

----------------------------------------------------------------------------
(* Claims on Spec.                                                         *)

\* entity_id has a row in the entity_ids table of d
Registered(d, entity_id) == \E e \in d.entity_ids : e.entity_id = entity_id

\* the rows of the blob tables of d whose id is NULL or no id of entity_ids
Orphans(d) ==
    {r \in UNION {d[tb] : tb \in blob_tables(kind)} :
       r.id = NULL \/ ~(\E e \in d.entity_ids : e.id = r.id)}

\* C6: a write_readings or write_index call naming an identifier that is not
\* in entity_ids fails with an error and leaves every table as it was, and
\* no blob table ever holds a row with a null or orphaned id.
C6_UnknownEntityRejected ==
    [][/\ (/\ pc = "call"
           /\ input.op = "write_readings"
           /\ \E i \in 1 .. Len(input.args) : ~Registered(db, input.args[i].id))
          => (last'.outcome # "ok" /\ db' = db)
       /\ (/\ pc = "call"
           /\ input.op = "write_index"
           /\ ~Registered(db, input.args.id))
          => (last'.outcome # "ok" /\ db' = db)
       /\ Orphans(db') = {}]_vars

\* a write_readings call failed on an unregistered identifier in a file that
\* holds rows of a registered one
C6_Witness ==
    /\ pc = "done"
    /\ last = [op |-> "write_readings",
               outcome |-> "IntegrityError: NOT NULL constraint failed"]
    /\ db.W_in # {}
    /\ Cardinality(db.entity_ids) = 1

\* some identifier occurs twice in the sequence ids
Repeats(ids) == \E i, j \in 1 .. Len(ids) : i # j /\ ids[i] = ids[j]

\* C7: write_entity_ids fails when an identifier given is already registered
\* or repeated in the call; a failing call leaves entity_ids as it was; and
\* always every identifier has at most one row and every row its own integer.
C7_DuplicateEntityRejected ==
    [][/\ (/\ pc = "call"
           /\ input.op = "write_entity_ids"
           /\ \/ Repeats(input.args)
              \/ \E i \in 1 .. Len(input.args) : Registered(db, input.args[i]))
          => last'.outcome # "ok"
       /\ (/\ pc = "call"
           /\ input.op = "write_entity_ids"
           /\ last'.outcome # "ok")
          => db'.entity_ids = db.entity_ids
       /\ \A a, b \in db'.entity_ids :
            (a.entity_id = b.entity_id \/ a.id = b.id) => a = b]_vars

\* a write_entity_ids call failed on a duplicate with two identifiers stored
C7_Witness ==
    /\ pc = "done"
    /\ last = [op |-> "write_entity_ids",
               outcome |-> "IntegrityError: UNIQUE constraint failed"]
    /\ Cardinality(db.entity_ids) = 2

\* the rows of table tb of d for the entity identifier entity_id
RowsOf(d, tb, entity_id) ==
    {r \in d[tb] : r.id = SELECT_ID_FROM_INDEX(d, entity_id)}

\* what a write_readings step persists: on success one row per profile in
\* each blob table and the earlier rows kept, on failure nothing
WriteReadingsPersistence ==
    /\ last'.outcome = "ok" =>
         /\ \A i \in 1 .. Len(input.args) : \A tb \in blob_tables(kind) :
              Cardinality(RowsOf(db', tb, input.args[i].id)) = 1
         /\ \A tb \in blob_tables(kind) : db[tb] \subseteq db'[tb]
    /\ last'.outcome # "ok" => db' = db

\* write_readings is all-or-nothing in what it persists (the part of C8 the
\* code satisfies)
WriteReadingsAllOrNothing ==
    [][(pc = "call" /\ input.op = "write_readings")
         => WriteReadingsPersistence]_vars

\* C8: write_readings is all-or-nothing: on success every profile of the
\* batch has exactly one row in each of W_in, W_out, maximums and cacheable;
\* on failure nothing of the call is persisted, rows of earlier calls are
\* unchanged, and the connection is released.
C8_AllOrNothingAndReleased ==
    [][(pc = "call" /\ input.op = "write_readings")
         => /\ WriteReadingsPersistence
            /\ (last'.outcome # "ok" /\ ~unclosed) => ~unclosed']_vars

\* finalise has completed on the per-day file
Finalised(d) == kind = "readings" /\ d.schema_version # <<>>

\* C9: once finalise has completed on a per-day file no later call changes
\* any table: metadata keeps one date row and one timezone row, and
\* schema_version one row of value 1.
C9_ImmutableAfterFinalise ==
    [][Finalised(db) =>
         /\ db' = db
         /\ Cardinality({i \in 1 .. Len(db'.metadata) :
                           db'.metadata[i].key = "date"}) = 1
         /\ Cardinality({i \in 1 .. Len(db'.metadata) :
                           db'.metadata[i].key = "timezone"}) = 1
         /\ db'.schema_version = <<"1">>]_vars

====
